---- MODULE Spec2Model ----
(***************************************************************************)
(* KnowledgeGraphAppBackend: the in-memory medical knowledge graph of      *)
(* app.py (a networkx DiGraph behind Flask handlers), its smart lookup,    *)
(* its query handlers and its export; and the MedicalGraph variant of      *)
(* graph_manager.py served by app1.py.                                     *)
(*                                                                         *)
(* Python strings are sequences of one-character strings, so that strip()  *)
(* and lower() are computed.  Python values that reach the handlers are    *)
(* records [kind, s]: a str, None (a missing key), or a number (a JSON     *)
(* number, or the NaN pandas gives an empty cell).                         *)
(***************************************************************************)
EXTENDS Integers, Sequences, FiniteSets, TLC

VARIABLES
    graph,   \* app.py: the module-level nx.DiGraph
    req,     \* the last request handled (handler name and its input)
    resp,    \* the response of the last request
    lk,      \* the last smart_lookup call: its arguments, intermediates, outcome
    thr,     \* threaded server: each handler thread's position and locals
    mg       \* app1.py: the MedicalGraph instance's nx.DiGraph

vars == <<graph, req, resp, lk, thr, mg>>

---------------------------------------------------------------------------
(* Strings *)

UpperToLower ==
    ("F" :> "f") @@ ("C" :> "c") @@ ("I" :> "i") @@ ("T" :> "t")

LowerChar(c) == IF c \in DOMAIN UpperToLower THEN UpperToLower[c] ELSE c

\* str.lower()
lower(s) == [i \in 1..Len(s) |-> LowerChar(s[i])]

IsSpace(c) == c \in {" ", "\t", "\n"}

RECURSIVE lstrip(_)
lstrip(s) == IF s # <<>> /\ IsSpace(Head(s)) THEN lstrip(Tail(s)) ELSE s

RECURSIVE rstrip(_)
rstrip(s) ==
    IF s # <<>> /\ IsSpace(s[Len(s)]) THEN rstrip(SubSeq(s, 1, Len(s) - 1)) ELSE s

\* str.strip()
strip(s) == rstrip(lstrip(s))

\* the normal form of a name or label: x.strip().lower()
Normalize(s) == lower(strip(s))

---------------------------------------------------------------------------
(* Python values *)

StrV(s) == [kind |-> "str", s |-> s]
NoneV == [kind |-> "none", s |-> <<>>]
NumV == [kind |-> "num", s |-> <<>>]

\* bool(v): "" and None are falsy; a non-empty str, a non-zero number and NaN are truthy
Truthy(v) ==
    CASE v.kind = "str" -> v.s # <<>>
      [] v.kind = "none" -> FALSE
      [] OTHER -> TRUE

---------------------------------------------------------------------------
(* The vocabulary of the model: names, relation labels, types *)

flu == <<"f", "l", "u">>
cold == <<"c", "o", "l", "d">>
\* a text of white space only
blank == <<" ", " ", " ", " ", " ", " ">>

indicates == <<"i", "n", "d", "i", "c", "a", "t", "e", "s">>
indicate == <<"i", "n", "d", "i", "c", "a", "t", "e">>
treated_by_sp == <<"t", "r", "e", "a", "t", "e", "d", " ", "b", "y">>
treated_by_us == <<"t", "r", "e", "a", "t", "e", "d", "_", "b", "y">>
treated == <<"t", "r", "e", "a", "t", "e", "d">>
managed_by_sp == <<"m", "a", "n", "a", "g", "e", "d", " ", "b", "y">>
managed_by_us == <<"m", "a", "n", "a", "g", "e", "d", "_", "b", "y">>
prescribed_by_sp == <<"p", "r", "e", "s", "c", "r", "i", "b", "e", "d", " ", "b", "y">>
prescribed_by_us == <<"p", "r", "e", "s", "c", "r", "i", "b", "e", "d", "_", "b", "y">>
co_occurs == <<"c", "o">>

\* the synonym lists of the three query handlers
DiagnosisLabels == {indicates, indicate}
TreatmentLabels == {treated_by_sp, treated_by_us, treated}
SpecialistLabels == {managed_by_sp, managed_by_us, prescribed_by_sp, prescribed_by_us}

\* raw spellings a client may send
SourceNames == {flu, <<" ", "F", "l", "u">>, blank}
TargetNames == {cold, <<"C", "o", "l", "d", " ">>, flu}
RawRelations == {<<"I", "n", "d", "i", "c", "a", "t", "e", "s", " ">>, treated}
TypePairs == {<<"Unknown", "Unknown">>, <<"Symptom", "Disease">>}

---------------------------------------------------------------------------
(* networkx.DiGraph: insertion-ordered nodes with a type attribute, and per *)
(* source an insertion-ordered adjacency with ONE attribute dict per        *)
(* ordered pair (a DiGraph is not a multigraph).                            *)

EmptyGraph == [nodes |-> <<>>, type |-> <<>>, adj |-> <<>>, rel |-> <<>>]

Range(s) == {s[i] : i \in DOMAIN s}

NodeSet(g) == Range(g.nodes)

has_node(g, n) == n \in NodeSet(g)

IndexOf(g, n) == CHOOSE i \in DOMAIN g.nodes : g.nodes[i] = n

\* g.type, g.adj are sequences parallel to g.nodes; g.rel[i] is parallel to g.adj[i]
TypeOf(g, n) == g.type[IndexOf(g, n)]
Successors(g, n) == g.adj[IndexOf(g, n)]
has_edge(g, u, v) == has_node(g, u) /\ v \in Range(Successors(g, u))
RelOf(g, u, v) ==
    LET i == IndexOf(g, u)
        j == CHOOSE k \in DOMAIN g.adj[i] : g.adj[i][k] = v
    IN g.rel[i][j]

\* graph.add_node(n, type=t)
add_node(g, n, t) ==
    IF has_node(g, n)
    THEN [g EXCEPT !.type[IndexOf(g, n)] = t]
    ELSE [nodes |-> Append(g.nodes, n), type |-> Append(g.type, t),
          adj |-> Append(g.adj, <<>>), rel |-> Append(g.rel, <<>>)]

\* graph.nodes[n]['type'] = t
set_type(g, n, t) == [g EXCEPT !.type[IndexOf(g, n)] = t]

\* (mutant) add_edge as a multigraph would do it: one more entry on every call
add_edge_parallel(g, u, v, r) ==
    LET i == IndexOf(g, u) IN [g EXCEPT !.adj[i] = Append(@, v), !.rel[i] = Append(@, r)]

\* graph.add_edge(u, v, relation=r), u and v present: the pair's attribute dict
\* is created, or updated in place when the pair is already an edge
add_edge(g, u, v, r) ==
    LET i == IndexOf(g, u) IN
    IF v \in Range(g.adj[i])
    THEN LET j == CHOOSE k \in DOMAIN g.adj[i] : g.adj[i][k] = v
         IN [g EXCEPT !.rel[i][j] = r]
    ELSE [g EXCEPT !.adj[i] = Append(@, v), !.rel[i] = Append(@, r)]

\* the (source, target, relation) triples of the store, as graph.edges(data=True) lists them
RECURSIVE EdgeSeqFrom(_, _)
EdgeSeqFrom(g, i) ==
    IF i > Len(g.nodes) THEN <<>>
    ELSE [j \in 1..Len(g.adj[i]) |->
             [source |-> g.nodes[i], target |-> g.adj[i][j], relation |-> g.rel[i][j]]]
         \o EdgeSeqFrom(g, i + 1)

EdgeSeq(g) == EdgeSeqFrom(g, 1)
EdgeSet(g) == Range(EdgeSeq(g))
NodeSeq(g) == [i \in 1..Len(g.nodes) |-> [id |-> g.nodes[i], type |-> g.type[i]]]

---------------------------------------------------------------------------
(* app.py: add_relationship *)

\* add_relationship(source, relation, target, source_type, target_type) on a
\* graph g: [ok, g].  The three .strip() calls come first and raise
\* AttributeError on a value that is no str, before anything is written.
add_relationship(g, source, relation, target, source_type, target_type) ==
    IF source.kind # "str" \/ target.kind # "str" \/ relation.kind # "str"
    THEN [ok |-> FALSE, g |-> g]
    ELSE LET s == lower(strip(source.s))
             t == lower(strip(target.s))
             r == lower(strip(relation.s))
             g1 == IF has_node(g, s) THEN set_type(g, s, source_type)
                   ELSE add_node(g, s, source_type)
             g2 == IF has_node(g1, t) THEN set_type(g1, t, target_type)
                   ELSE add_node(g1, t, target_type)
         IN [ok |-> TRUE, g |-> add_edge(g2, s, t, r)]

---------------------------------------------------------------------------
(* app.py: responses *)

Message == [status |-> 200, kind |-> "message"]
Error(code, why) == [status |-> code, kind |-> "error", why |-> why]

NoRequest == [op |-> "none"]
NoLookup ==
    [called |-> FALSE, query |-> <<>>, threshold |-> 0, corrected |-> <<>>,
     scores |-> <<>>, out |-> [kind |-> "none", node |-> <<>>]]

---------------------------------------------------------------------------
(* app.py: add_concept *)

\* POST /add-concept with JSON body data: [g, resp]
add_concept(g, data) ==
    IF ~Truthy(data.source) \/ ~Truthy(data.relation) \/ ~Truthy(data.target)
    THEN [g |-> g, resp |-> Error(400, "required")]
    ELSE LET r == add_relationship(g, data.source, data.relation, data.target,
                                   data.source_type, data.target_type)
         IN IF r.ok THEN [g |-> r.g, resp |-> Message]
            ELSE [g |-> g, resp |-> Error(500, "exception")]

---------------------------------------------------------------------------
(* app.py: upload_data *)

\* file.read(): returns the rest of the stream and leaves it at its end
file_read(f) == [f EXCEPT !.pos = "eof"]

\* pd.read_csv(file) parses from the stream's CURRENT position: nothing is
\* left after file.read(), and pandas raises EmptyDataError
read_csv(f) ==
    IF f.pos = "eof" THEN [ok |-> FALSE, columns_ok |-> FALSE, rows |-> <<>>]
    ELSE [ok |-> TRUE, columns_ok |-> f.csv.columns_ok, rows |-> f.csv.rows]

\* the JSON branch's loop from entry i on: [ok, g]; ok is FALSE when an
\* exception left the loop (entry.get on a non-dict, .strip() on a non-str)
RECURSIVE json_loop(_, _, _)
json_loop(g, items, i) ==
    IF i > Len(items) THEN [ok |-> TRUE, g |-> g]
    ELSE LET entry == items[i] IN
         IF ~entry.isdict THEN [ok |-> FALSE, g |-> g]
         ELSE IF Truthy(entry.source) /\ Truthy(entry.relation) /\ Truthy(entry.target)
              THEN LET r == add_relationship(g, entry.source, entry.relation, entry.target,
                                             entry.source_type, entry.target_type)
                   IN IF r.ok THEN json_loop(r.g, items, i + 1)
                      ELSE [ok |-> FALSE, g |-> g]
              ELSE json_loop(g, items, i + 1)

\* the CSV branch's loop over df.iterrows() from row i on
RECURSIVE csv_loop(_, _, _)
csv_loop(g, rows, i) ==
    IF i > Len(rows) THEN [ok |-> TRUE, g |-> g]
    ELSE LET row == rows[i] IN
         IF ~Truthy(row.source) \/ ~Truthy(row.relation) \/ ~Truthy(row.target)
         THEN csv_loop(g, rows, i + 1)
         ELSE LET r == add_relationship(g, row.source, row.relation, row.target,
                                        row.source_type, row.target_type)
              IN IF r.ok THEN csv_loop(r.g, rows, i + 1)
                 ELSE [ok |-> FALSE, g |-> g]

\* POST /upload-data with the multipart form's file f: [g, resp]
upload_data(g, f) ==
    IF ~f.present THEN [g |-> g, resp |-> Error(400, "nofile")]
    ELSE LET file == file_read(f) IN
         CASE f.ext = "json" ->
                IF f.json.kind = "invalid" THEN [g |-> g, resp |-> Error(500, "exception")]
                ELSE IF f.json.kind # "list" THEN [g |-> g, resp |-> Error(400, "notlist")]
                ELSE LET r == json_loop(g, f.json.items, 1)
                     IN IF r.ok THEN [g |-> r.g, resp |-> Message]
                        ELSE [g |-> r.g, resp |-> Error(500, "exception")]
           [] f.ext = "csv" ->
                LET df == read_csv(file) IN
                IF ~df.ok THEN [g |-> g, resp |-> Error(500, "exception")]
                ELSE IF ~df.columns_ok THEN [g |-> g, resp |-> Error(400, "columns")]
                ELSE LET r == csv_loop(g, df.rows, 1)
                     IN IF r.ok THEN [g |-> r.g, resp |-> Message]
                        ELSE [g |-> r.g, resp |-> Error(500, "exception")]
           [] OTHER -> [g |-> g, resp |-> Error(400, "filetype")]

---------------------------------------------------------------------------
(* app.py: get_graph *)

\* GET /graph on a graph g
get_graph(g) == [status |-> 200, kind |-> "graph", nodes |-> NodeSeq(g), edges |-> EdgeSeq(g)]

---------------------------------------------------------------------------
(* Inputs and bounds of the ingestion specification *)

MaxEdges == 2
MaxBatch == 2

EdgeCount(g) == Len(EdgeSeq(g))

Request(s, r, t, ty) ==
    [source |-> s, relation |-> r, target |-> t, source_type |-> ty[1], target_type |-> ty[2]]

\* the JSON bodies of add-concept: every spelling of a complete record, and
\* bodies whose source is missing, whose target is "" or whose target is a number
Requests ==
    {Request(StrV(s), StrV(r), StrV(t), ty) :
        s \in SourceNames, r \in RawRelations, t \in TargetNames, ty \in TypePairs}
    \cup {Request(NoneV, StrV(indicates), StrV(cold), <<"Unknown", "Unknown">>),
          Request(StrV(flu), StrV(indicates), StrV(<<>>), <<"Unknown", "Unknown">>),
          Request(StrV(flu), StrV(indicates), NumV, <<"Unknown", "Unknown">>)}

Entry(s, r, t) ==
    [isdict |-> TRUE, source |-> s, relation |-> r, target |-> t,
     source_type |-> "Unknown", target_type |-> "Unknown"]

\* the records a batch is made of: two valid ones, one whose source is
\* whitespace only, one without target, one whose target is a number, and
\* one list element that is no object at all
BatchEntries ==
    { Entry(StrV(flu), StrV(indicates), StrV(cold)),
      Entry(StrV(<<"C", "o", "l", "d", " ">>), StrV(treated), StrV(flu)),
      Entry(StrV(blank), StrV(indicates), StrV(flu)),
      Entry(StrV(flu), StrV(indicates), NoneV),
      Entry(StrV(cold), StrV(indicates), NumV),
      [Entry(NoneV, NoneV, NoneV) EXCEPT !.isdict = FALSE] }

Batches == UNION {[1..n -> BatchEntries] : n \in 0..MaxBatch}

NoJson == [kind |-> "invalid", items |-> <<>>]
NoCsv == [columns_ok |-> FALSE, rows |-> <<>>]

File(present, ext, json, csv) ==
    [present |-> present, ext |-> ext, pos |-> "start", json |-> json, csv |-> csv]

Files ==
    {File(FALSE, "none", NoJson, NoCsv), File(TRUE, "txt", NoJson, NoCsv),
     File(TRUE, "json", NoJson, NoCsv),
     File(TRUE, "json", [kind |-> "object", items |-> <<>>], NoCsv)}
    \cup {File(TRUE, "json", [kind |-> "list", items |-> b], NoCsv) : b \in Batches}
    \cup {File(TRUE, "csv", NoJson, [columns_ok |-> c, rows |-> b]) :
             c \in BOOLEAN, b \in {b \in Batches : \A i \in DOMAIN b : b[i].isdict}}

BatchOf(f) == IF f.ext = "json" THEN f.json.items ELSE f.csv.rows

---------------------------------------------------------------------------
(* app.py served one request at a time: ingestion and export *)

Init ==
    /\ graph = EmptyGraph
    /\ req = NoRequest
    /\ resp = Message
    /\ lk = NoLookup
    /\ thr = <<>>
    /\ mg = EmptyGraph

\* one add-concept request
Ingest(data) ==
    /\ LET out == add_concept(graph, data) IN
       /\ graph' = out.g
       /\ resp' = out.resp
    /\ req' = [op |-> "add_concept", data |-> data,
               again |-> req.op = "add_concept" /\ req.data = data /\ resp.status = 200]
    /\ lk' = NoLookup
    /\ UNCHANGED <<thr, mg>>

AddConcept ==
    \E data \in Requests :
        /\ EdgeCount(graph) < MaxEdges
        /\ Ingest(data)

UploadData ==
    \E f \in Files :
        /\ EdgeCount(graph) + Len(BatchOf(f)) <= MaxEdges
        /\ LET out == upload_data(graph, f) IN
           /\ graph' = out.g
           /\ resp' = out.resp
        /\ req' = [op |-> "upload_data", file |-> f]
        /\ lk' = NoLookup
        /\ UNCHANGED <<thr, mg>>

GetGraph ==
    /\ resp' = get_graph(graph)
    /\ req' = [op |-> "get_graph"]
    /\ lk' = NoLookup
    /\ UNCHANGED <<graph, thr, mg>>

Next == AddConcept \/ UploadData \/ GetGraph

Spec == Init /\ [][Next]_vars

---------------------------------------------------------------------------
(* app.py: smart_lookup *)

DefaultThreshold == 80

None == [kind |-> "none", node |-> <<>>]
Raised == [kind |-> "raise", node |-> <<>>]
Found(n) == [kind |-> "node", node |-> n]

\* the first node of node_list whose lowercased name is corrected, if any
ExactMatches(node_list, corrected) ==
    {i \in DOMAIN node_list : lower(node_list[i]) = corrected}

Min(S) == CHOOSE x \in S : \A y \in S : x <= y
Max(S) == CHOOSE x \in S : \A y \in S : x >= y

\* process.extractOne(corrected, node_list, scorer): the first choice with the
\* highest score, as <<match, score>>; None for an empty list of choices.
\* score[n] is what the scorer gives for (corrected, n).
extractOne(node_list, score) ==
    IF node_list = <<>> THEN <<>>
    ELSE LET best == Max({score[node_list[i]] : i \in DOMAIN node_list})
             i == Min({k \in DOMAIN node_list : score[node_list[k]] = best})
         IN <<node_list[i], best>>

\* (mutant) smart_lookup accepting only a score above the threshold
smart_lookup_strict(g, query, threshold, spell, score) ==
    IF query = <<>> THEN None
    ELSE LET corrected == spell[lower(strip(query))]
             node_list == g.nodes
             exact == ExactMatches(node_list, corrected)
         IN IF exact # {} THEN Found(node_list[Min(exact)])
            ELSE LET one == extractOne(node_list, score) IN
                 IF one = <<>> THEN Raised
                 ELSE IF one[2] > threshold THEN Found(one[1])
                 ELSE None

\* smart_lookup(query, threshold) on graph g, with the speller and the scorer
\* of this call given as functions.  On an empty graph `match, score = None`
\* raises TypeError.
smart_lookup(g, query, threshold, spell, score) ==
    IF query = <<>> THEN None
    ELSE LET corrected == spell[lower(strip(query))]
             node_list == g.nodes
             exact == ExactMatches(node_list, corrected)
         IN IF exact # {} THEN Found(node_list[Min(exact)])
            ELSE LET one == extractOne(node_list, score) IN
                 IF one = <<>> THEN Raised
                 ELSE IF one[2] >= threshold THEN Found(one[1])
                 ELSE None

\* what a smart_lookup call looked like, for the properties that speak of it
Lookup(g, query, threshold, spell, score) ==
    [called |-> TRUE, query |-> query, threshold |-> threshold,
     corrected |-> IF query = <<>> THEN <<>> ELSE spell[lower(strip(query))],
     scores |-> score,
     out |-> smart_lookup(g, query, threshold, spell, score)]

---------------------------------------------------------------------------
(* app.py: the three query handlers *)

\* [nbr for nbr in graph.successors(node) if graph.edges[node, nbr]['relation'].lower() in labels]
RECURSIVE Filter(_, _, _, _)
Filter(g, node, labels, j) ==
    LET succ == Successors(g, node) IN
    IF j > Len(succ) THEN <<>>
    ELSE (IF lower(RelOf(g, node, succ[j])) \in labels THEN <<succ[j]>> ELSE <<>>)
         \o Filter(g, node, labels, j + 1)

\* the body the three handlers share: arg is the query parameter
query(g, arg, labels, kind, spell, score) ==
    IF ~Truthy(arg) THEN [resp |-> Error(400, "required"), lk |-> NoLookup]
    ELSE LET look == Lookup(g, arg.s, DefaultThreshold, spell, score)
             node == look.out
         IN [lk |-> look,
             resp |-> IF node.kind = "raise" THEN Error(404, "exception")
                      ELSE IF node.kind = "none" \/ node.node = <<>>
                      THEN Error(404, "nomatch")
                      ELSE [status |-> 200, kind |-> kind, matched_node |-> node.node,
                            items |-> Filter(g, node.node, labels, 1)]]

diagnoses_for_symptom(g, symptom, spell, score) ==
    query(g, symptom, {indicates, indicate}, "diseases", spell, score)

treatments_for_disease(g, disease, spell, score) ==
    query(g, disease, {treated_by_sp, treated_by_us, treated}, "treatments", spell, score)

specialists_for_entity(g, entity, spell, score) ==
    query(g, entity, {managed_by_sp, managed_by_us, prescribed_by_sp, prescribed_by_us},
          "specialists", spell, score)

---------------------------------------------------------------------------
(* app.py served one request at a time: ingestion and the queries *)

flo == <<"f", "l", "o">>

\* the facts the queried graphs are built from
QRequests ==
    {Request(StrV(flu), StrV(indicates), StrV(cold), <<"Symptom", "Disease">>),
     Request(StrV(flu), StrV(co_occurs), StrV(cold), <<"Symptom", "Disease">>),
     Request(StrV(cold), StrV(<<"T", "r", "e", "a", "t", "e", "d", " ", "b", "y", " ">>),
             StrV(flu), <<"Disease", "Symptom">>),
     Request(StrV(flo), StrV(managed_by_us), StrV(cold), <<"Unknown", "Disease">>),
     Request(StrV(blank), StrV(indicates), StrV(flu), <<"Unknown", "Symptom">>)}

\* the query parameter: spellings of node names, a typo, blanks, "", absent
QueryArgs ==
    {StrV(flu), StrV(<<"F", "l", "u", " ">>), StrV(cold), StrV(flo), StrV(blank),
     StrV(<<>>), NoneV}

\* the speller (autocorrect.Speller): a text without a word stays as it is; a
\* word stays, or becomes the dictionary word the speller holds closest to it
Corrections == (flo :> flu)
Spellers(text) ==
    LET q == lower(strip(text))
    IN {(q :> c) : c \in {q} \cup (IF q \in DOMAIN Corrections THEN {Corrections[q]} ELSE {})}

\* the scorer (thefuzz's WRatio after its default processor): 0 when either
\* text is empty, and any score of S otherwise
Scorers(g, S, corrected) ==
    {[n \in NodeSet(g) |-> IF n = <<>> \/ corrected = <<>> THEN 0 ELSE h[n]] :
        h \in [NodeSet(g) \ {<<>>} -> S]}

HandlerScores == {79, 80}
Scores == {79, 80, 81}
Thresholds == {80, 81}

LookupQueries == {<<"F", "l", "u", " ">>, cold, flo, blank, <<>>}

AddConceptQ ==
    \E data \in QRequests : Ingest(data)

\* a query handler answered out to its parameter arg
Answer(out, name, arg) ==
    /\ resp' = out.resp
    /\ lk' = out.lk
    /\ req' = [op |-> name, arg |-> arg]
    /\ UNCHANGED <<graph, thr, mg>>

DiagnosesForSymptom ==
    \E arg \in QueryArgs :
        \E spell \in Spellers(arg.s) :
        \E score \in Scorers(graph, HandlerScores, spell[lower(strip(arg.s))]) :
            Answer(diagnoses_for_symptom(graph, arg, spell, score),
                   "diagnoses_for_symptom", arg)

TreatmentsForDisease ==
    \E arg \in QueryArgs :
        \E spell \in Spellers(arg.s) :
        \E score \in Scorers(graph, HandlerScores, spell[lower(strip(arg.s))]) :
            Answer(treatments_for_disease(graph, arg, spell, score),
                   "treatments_for_disease", arg)

SpecialistsForEntity ==
    \E arg \in QueryArgs :
        \E spell \in Spellers(arg.s) :
        \E score \in Scorers(graph, HandlerScores, spell[lower(strip(arg.s))]) :
            Answer(specialists_for_entity(graph, arg, spell, score),
                   "specialists_for_entity", arg)

\* a direct call smart_lookup(query, threshold)
SmartLookup ==
    \E text \in LookupQueries, threshold \in Thresholds :
        \E spell \in Spellers(text) :
        \E score \in Scorers(graph, Scores, spell[lower(strip(text))]) :
            /\ lk' = Lookup(graph, text, threshold, spell, score)
            /\ resp' = [status |-> 0, kind |-> "call"]
            /\ req' = [op |-> "smart_lookup", query |-> text]
            /\ UNCHANGED <<graph, thr, mg>>

NextQ == AddConceptQ \/ DiagnosesForSymptom \/ TreatmentsForDisease \/ SpecialistsForEntity

SpecQ == Init /\ [][NextQ]_vars

NextL == AddConceptQ \/ SmartLookup

SpecL == Init /\ [][NextL]_vars

---------------------------------------------------------------------------
(* app.py under the threaded server (app.run): handler threads share graph  *)
(* with no lock.  One thread runs add_concept, one runs get_graph; a thread *)
(* switch may fall between any two statements of app.py.  The networkx      *)
(* calls and the dict iterators' next() are taken as single steps.          *)

CRequests ==
    {Request(StrV(flu), StrV(indicates), StrV(cold), <<"Symptom", "Disease">>),
     Request(StrV(cold), StrV(treated), StrV(flu), <<"Disease", "Symptom">>),
     Request(StrV(flu), StrV(indicates), NoneV, <<"Symptom", "Disease">>)}

IdleWriter == [pc |-> "idle", s |-> <<>>, t |-> <<>>, r |-> <<>>, st |-> "", tt |-> ""]
IdleReader == [pc |-> "idle", i |-> 0, j |-> 0, n0 |-> 0, m0 |-> 0, nodes |-> <<>>, edges |-> <<>>]

InitConc ==
    /\ graph = EmptyGraph
    /\ req = NoRequest
    /\ resp = Message
    /\ lk = NoLookup
    /\ thr = [w |-> IdleWriter, r |-> IdleReader]
    /\ mg = EmptyGraph

\* add_concept up to add_relationship's three normalisations (lines 106-117, 72-74)
WriterStart ==
    \E data \in CRequests :
        /\ thr.w.pc = "idle"
        /\ IF ~Truthy(data.source) \/ ~Truthy(data.relation) \/ ~Truthy(data.target)
           THEN /\ resp' = Error(400, "required")
                /\ req' = [op |-> "add_concept", data |-> data, again |-> FALSE]
                /\ thr' = thr
           ELSE /\ thr' = [thr EXCEPT !.w = [pc |-> "source",
                                             s |-> lower(strip(data.source.s)),
                                             t |-> lower(strip(data.target.s)),
                                             r |-> lower(strip(data.relation.s)),
                                             st |-> data.source_type,
                                             tt |-> data.target_type]]
                /\ UNCHANGED <<req, resp>>
        /\ UNCHANGED <<graph, lk, mg>>

\* lines 77-80
WriterSource ==
    /\ thr.w.pc = "source"
    /\ graph' = IF has_node(graph, thr.w.s) THEN set_type(graph, thr.w.s, thr.w.st)
                ELSE add_node(graph, thr.w.s, thr.w.st)
    /\ thr' = [thr EXCEPT !.w.pc = "target"]
    /\ UNCHANGED <<req, resp, lk, mg>>

\* lines 83-86
WriterTarget ==
    /\ thr.w.pc = "target"
    /\ graph' = IF has_node(graph, thr.w.t) THEN set_type(graph, thr.w.t, thr.w.tt)
                ELSE add_node(graph, thr.w.t, thr.w.tt)
    /\ thr' = [thr EXCEPT !.w.pc = "edge"]
    /\ UNCHANGED <<req, resp, lk, mg>>

\* line 89, and add_concept's response
WriterEdge ==
    /\ thr.w.pc = "edge"
    /\ graph' = add_edge(graph, thr.w.s, thr.w.t, thr.w.r)
    /\ thr' = [thr EXCEPT !.w = IdleWriter]
    /\ resp' = Message
    /\ req' = [op |-> "add_concept_done"]
    /\ UNCHANGED <<lk, mg>>

\* the reader's response: 500 when a dict changed size under its iterator
ReaderDone(status) ==
    /\ resp' = IF status = 200
               THEN [status |-> 200, kind |-> "graph", nodes |-> thr.r.nodes, edges |-> thr.r.edges]
               ELSE Error(500, "exception")
    /\ req' = [op |-> "get_graph"]
    /\ thr' = [thr EXCEPT !.r = IdleReader]

\* get_graph: iter(graph.nodes(data=True))
ReaderStart ==
    /\ thr.r.pc = "idle"
    /\ thr' = [thr EXCEPT !.r = [IdleReader EXCEPT !.pc = "nodes", !.i = 1,
                                                  !.n0 = Len(graph.nodes)]]
    /\ UNCHANGED <<graph, req, resp, lk, mg>>

\* one turn of the loop of lines 292-296
ReaderNode ==
    /\ thr.r.pc = "nodes"
    /\ IF Len(graph.nodes) # thr.r.n0 THEN ReaderDone(500)
       ELSE IF thr.r.i > thr.r.n0
            THEN /\ thr' = [thr EXCEPT !.r.pc = "edges0"]
                 /\ UNCHANGED <<req, resp>>
            ELSE /\ thr' = [thr EXCEPT !.r.nodes = Append(@, [id |-> graph.nodes[thr.r.i],
                                                             type |-> graph.type[thr.r.i]]),
                                       !.r.i = @ + 1]
                 /\ UNCHANGED <<req, resp>>
    /\ UNCHANGED <<graph, lk, mg>>

\* iter(graph.edges(data=True)) of line 298
ReaderEdges ==
    /\ thr.r.pc = "edges0"
    /\ thr' = [thr EXCEPT !.r.pc = "edges", !.r.i = 1, !.r.j = 0, !.r.n0 = Len(graph.nodes)]
    /\ UNCHANGED <<graph, req, resp, lk, mg>>

\* the edge view's next(): the outer iterator over the adjacency, j = 0, or the
\* inner one over thr.r.i's successors (lines 298-303)
ReaderEdge ==
    /\ thr.r.pc = "edges"
    /\ IF thr.r.j = 0
       THEN IF Len(graph.nodes) # thr.r.n0 THEN ReaderDone(500)
            ELSE IF thr.r.i > thr.r.n0 THEN ReaderDone(200)
            ELSE /\ thr' = [thr EXCEPT !.r.j = 1, !.r.m0 = Len(graph.adj[thr.r.i])]
                 /\ UNCHANGED <<req, resp>>
       ELSE IF Len(graph.adj[thr.r.i]) # thr.r.m0 THEN ReaderDone(500)
            ELSE IF thr.r.j > thr.r.m0
                 THEN /\ thr' = [thr EXCEPT !.r.i = @ + 1, !.r.j = 0]
                      /\ UNCHANGED <<req, resp>>
                 ELSE /\ thr' = [thr EXCEPT
                            !.r.edges = Append(@, [source |-> graph.nodes[thr.r.i],
                                                   target |-> graph.adj[thr.r.i][thr.r.j],
                                                   relation |-> graph.rel[thr.r.i][thr.r.j]]),
                            !.r.j = @ + 1]
                      /\ UNCHANGED <<req, resp>>
    /\ UNCHANGED <<graph, lk, mg>>

NextConc ==
    \/ WriterStart \/ WriterSource \/ WriterTarget \/ WriterEdge
    \/ ReaderStart \/ ReaderNode \/ ReaderEdges \/ ReaderEdge

SpecConc == InitConc /\ [][NextConc]_vars

---------------------------------------------------------------------------
(* graph_manager.py: MedicalGraph, and app1.py's handlers over it.  Names   *)
(* and labels are stored as given: nothing is trimmed or lowercased.  A     *)
(* label is kept as a Python value, a node is a str.                        *)

\* self.graph.add_node(n): a new node, or nothing; None is refused (ValueError)
MedicalGraph_add_node(g, n) == IF has_node(g, n) THEN g ELSE add_node(g, n, "")

\* MedicalGraph.add_relationship(source, relation, target): [ok, g]
MedicalGraph_add_relationship(g, source, relation, target) ==
    IF source.kind # "str" THEN [ok |-> FALSE, g |-> g]
    ELSE LET g1 == MedicalGraph_add_node(g, source.s) IN
         IF target.kind # "str" THEN [ok |-> FALSE, g |-> g1]
         ELSE [ok |-> TRUE,
               g |-> add_edge(MedicalGraph_add_node(g1, target.s), source.s, target.s, relation)]

\* [target for target, edge in self.graph[node].items() if edge.get("label") in labels]
RECURSIVE MedicalGraph_targets(_, _, _, _)
MedicalGraph_targets(g, node, labels, j) ==
    LET succ == Successors(g, node) IN
    IF j > Len(succ) THEN <<>>
    ELSE (IF RelOf(g, node, succ[j]) \in labels THEN <<succ[j]>> ELSE <<>>)
         \o MedicalGraph_targets(g, node, labels, j + 1)

\* self.graph[node] raises KeyError for a node the graph lacks: a 500
MedicalGraph_query(g, node, labels) ==
    IF node.kind # "str" \/ ~has_node(g, node.s) THEN Error(500, "exception")
    ELSE [status |-> 200, kind |-> "list", items |-> MedicalGraph_targets(g, node.s, labels, 1)]

MedicalGraph_query_diagnosis(g, symptom) == MedicalGraph_query(g, symptom, {StrV(indicates)})
MedicalGraph_query_treatments(g, disease) == MedicalGraph_query(g, disease, {StrV(treated_by_sp)})
MedicalGraph_query_specialists(g, condition) ==
    MedicalGraph_query(g, condition, {StrV(managed_by_sp), StrV(prescribed_by_sp)})

MedicalGraph_export_graph(g) ==
    [status |-> 200, kind |-> "graph",
     nodes |-> [i \in 1..Len(g.nodes) |-> [id |-> g.nodes[i]]],
     links |-> [k \in 1..Len(EdgeSeq(g)) |->
                  [source |-> EdgeSeq(g)[k].source, target |-> EdgeSeq(g)[k].target,
                   label |-> EdgeSeq(g)[k].relation]]]

\* app1.add_concept: data["source"], data["relation"], data["target"] raise
\* KeyError on a missing key; nothing catches, Flask answers 500
app1_add_concept(g, data) ==
    IF ~data.haskeys THEN [g |-> g, resp |-> Error(500, "exception")]
    ELSE LET r == MedicalGraph_add_relationship(g, data.source, data.relation, data.target)
         IN [g |-> r.g, resp |-> IF r.ok THEN Message ELSE Error(500, "exception")]

\* the loops of app1.upload_data over the rows or items from i on
RECURSIVE app1_loop(_, _, _)
app1_loop(g, items, i) ==
    IF i > Len(items) THEN [ok |-> TRUE, g |-> g]
    ELSE IF ~items[i].isdict \/ ~items[i].haskeys THEN [ok |-> FALSE, g |-> g]
    ELSE LET r == MedicalGraph_add_relationship(g, items[i].source, items[i].relation,
                                                 items[i].target)
         IN IF r.ok THEN app1_loop(r.g, items, i + 1) ELSE [ok |-> FALSE, g |-> r.g]

\* app1.upload_data
app1_upload_data(g, f) ==
    IF ~f.present THEN [g |-> g, resp |-> Error(400, "nofile")]
    ELSE IF f.ext \notin {"csv", "json"} THEN [g |-> g, resp |-> Error(400, "filetype")]
    ELSE IF ~f.parses THEN [g |-> g, resp |-> Error(500, "exception")]
    ELSE LET r == app1_loop(g, f.items, 1)
         IN [g |-> r.g, resp |-> IF r.ok THEN Message ELSE Error(500, "exception")]

---------------------------------------------------------------------------
(* app1.py served one request at a time *)

MGNames == {flu, <<"F", "l", "u">>, <<" ", "f", "l", "u">>}
MGRelations == {indicates, treated_by_sp, managed_by_sp}

MGEntry(isdict, haskeys, s, r, t) ==
    [isdict |-> isdict, haskeys |-> haskeys, source |-> s, relation |-> r, target |-> t]

MGRequests ==
    {MGEntry(TRUE, TRUE, StrV(s), StrV(r), StrV(t)) :
        s \in MGNames, r \in MGRelations, t \in {cold, flu}}
    \cup {MGEntry(TRUE, FALSE, NoneV, NoneV, NoneV),
          MGEntry(TRUE, TRUE, StrV(flu), StrV(indicates), NoneV)}

MGBatchEntries ==
    {MGEntry(TRUE, TRUE, StrV(flu), StrV(indicates), StrV(cold)),
     MGEntry(TRUE, TRUE, StrV(<<"F", "l", "u">>), StrV(indicates), StrV(cold)),
     MGEntry(TRUE, FALSE, NoneV, NoneV, NoneV),
     MGEntry(TRUE, TRUE, StrV(cold), StrV(treated_by_sp), NoneV),
     MGEntry(FALSE, FALSE, NoneV, NoneV, NoneV)}

MGFiles ==
    {[present |-> FALSE, ext |-> "none", parses |-> FALSE, items |-> <<>>],
     [present |-> TRUE, ext |-> "txt", parses |-> FALSE, items |-> <<>>],
     [present |-> TRUE, ext |-> "json", parses |-> FALSE, items |-> <<>>]}
    \cup {[present |-> TRUE, ext |-> e, parses |-> TRUE, items |-> b] :
             e \in {"csv", "json"},
             b \in UNION {[1..n -> MGBatchEntries] : n \in 0..MaxBatch}}

MGAddConcept ==
    \E data \in MGRequests :
        /\ EdgeCount(mg) < MaxEdges
        /\ LET out == app1_add_concept(mg, data) IN
           /\ mg' = out.g
           /\ resp' = out.resp
        /\ req' = [op |-> "app1.add_concept", data |-> data]
        /\ UNCHANGED <<graph, lk, thr>>

MGUploadData ==
    \E f \in MGFiles :
        /\ EdgeCount(mg) + Len(f.items) <= MaxEdges
        /\ LET out == app1_upload_data(mg, f) IN
           /\ mg' = out.g
           /\ resp' = out.resp
        /\ req' = [op |-> "app1.upload_data", file |-> f]
        /\ UNCHANGED <<graph, lk, thr>>

MGArgs == {StrV(flu), StrV(<<"F", "l", "u">>), StrV(cold), NoneV}

MGQueryDiagnosis ==
    \E arg \in MGArgs :
        /\ resp' = MedicalGraph_query_diagnosis(mg, arg)
        /\ req' = [op |-> "app1.query_diagnosis", arg |-> arg]
        /\ UNCHANGED <<graph, lk, thr, mg>>

MGQueryTreatments ==
    \E arg \in MGArgs :
        /\ resp' = MedicalGraph_query_treatments(mg, arg)
        /\ req' = [op |-> "app1.query_treatments", arg |-> arg]
        /\ UNCHANGED <<graph, lk, thr, mg>>

MGQuerySpecialists ==
    \E arg \in MGArgs :
        /\ resp' = MedicalGraph_query_specialists(mg, arg)
        /\ req' = [op |-> "app1.query_specialists", arg |-> arg]
        /\ UNCHANGED <<graph, lk, thr, mg>>

MGGraphData ==
    /\ resp' = MedicalGraph_export_graph(mg)
    /\ req' = [op |-> "app1.graph_data"]
    /\ UNCHANGED <<graph, lk, thr, mg>>

NextMG ==
    \/ MGAddConcept \/ MGUploadData \/ MGQueryDiagnosis \/ MGQueryTreatments
    \/ MGQuerySpecialists \/ MGGraphData

SpecMG == Init /\ [][NextMG]_vars

---------------------------------------------------------------------------
(* Properties *)

\* what GET /graph shows of a graph: its nodes with their types, its edges with their labels
Observable(g) == [nodes |-> NodeSeq(g), edges |-> EdgeSeq(g)]

\* C1: an edge triple (source, target, relation) once ingested is never lost by
\* a later ingestion, so that two labels ingested for the same ordered pair
\* give two edges, both in the store and in the export.
EdgesNeverLost == [][EdgeSet(graph) \subseteq EdgeSet(graph')]_vars

\* C2: an add-concept request that repeats the one just applied (same source,
\* relation, target and types) leaves the store as it was after the first:
\* the same nodes with the same types, the same edges with the same labels.
Idempotence ==
    [][(req'.op = "add_concept" /\ req'.again /\ resp'.status = 200)
          => Observable(graph') = Observable(graph)]_vars

\* the same record has been applied twice in a row, to a graph it is part of
IdempotenceWitness ==
    /\ req.op = "add_concept" /\ req.again /\ resp.status = 200
    /\ req.data.source_type = "Symptom"
    /\ EdgeCount(graph) >= 1

\* C3: every node name in the store is in normal form (trimmed, lowercased),
\* here of the MedicalGraph store of graph_manager.py.
MedicalGraphNamesNormal == \A n \in NodeSet(mg) : n = lower(strip(n))

\* (C3, the store of app.py) every node name is trimmed and lowercased
NodeNamesNormal == \A n \in NodeSet(graph) : n = lower(strip(n))

\* a field that is absent or a str
FieldOk(v) == v.kind \in {"str", "none"}
\* a record whose three required fields are present and non-empty after trimming
ValidRecord(e) ==
    \A v \in {e.source, e.relation, e.target} : v.kind = "str" /\ strip(v.s) # <<>>

\* a well-formed batch: a JSON list of objects, or a CSV with the required
\* columns, each record's fields being strings or absent
WellFormed(f) ==
    /\ f.present
    /\ \/ f.ext = "json" /\ f.json.kind = "list"
       \/ f.ext = "csv" /\ f.csv.columns_ok
    /\ \A i \in DOMAIN BatchOf(f) :
          /\ BatchOf(f)[i].isdict
          /\ FieldOk(BatchOf(f)[i].source) /\ FieldOk(BatchOf(f)[i].relation)
          /\ FieldOk(BatchOf(f)[i].target)

\* the graph got by ingesting the valid records of a batch, in order
RECURSIVE IngestValid(_, _, _)
IngestValid(g, items, i) ==
    IF i > Len(items) THEN g
    ELSE IF ValidRecord(items[i])
         THEN IngestValid(add_relationship(g, items[i].source, items[i].relation,
                                           items[i].target, items[i].source_type,
                                           items[i].target_type).g, items, i + 1)
         ELSE IngestValid(g, items, i + 1)

\* C4: a well-formed batch is answered with success, and leaves the graph got
\* by ingesting, in order, exactly its records whose source, relation and
\* target are present and non-empty after trimming.
BatchPartialFailure ==
    [][(req'.op = "upload_data" /\ WellFormed(req'.file))
          => /\ resp'.status = 200
             /\ graph' = IngestValid(graph, BatchOf(req'.file), 1)]_vars

\* C5: an upload answered with an error has applied none of its records.
RejectedUploadAtomic ==
    [][(req'.op = "upload_data" /\ resp'.status # 200) => graph' = graph]_vars

QueryOps == {"diagnoses_for_symptom", "treatments_for_disease", "specialists_for_entity"}

LabelsOf(op) ==
    CASE op = "diagnoses_for_symptom" -> DiagnosisLabels
      [] op = "treatments_for_disease" -> TreatmentLabels
      [] op = "specialists_for_entity" -> SpecialistLabels

\* the targets of node n's edges whose label is in labels
TargetsIn(g, n, labels) ==
    {e.target : e \in {x \in EdgeSet(g) : x.source = n /\ x.relation \in labels}}

\* C6: a query whose text the resolver matches to no node is answered 404,
\* never with a success; one whose text it matches to a node without an edge
\* of the category is answered with success, that node and an empty list.
UnresolvableQuery ==
    (req.op \in QueryOps /\ lk.called)
        => /\ lk.out.kind # "node" => resp.status = 404
           /\ (lk.out.kind = "node" /\ TargetsIn(graph, lk.out.node, LabelsOf(req.op)) = {})
                 => /\ resp.status = 200
                    /\ resp.matched_node = lk.out.node
                    /\ resp.items = <<>>

\* (C6, for the nodes that have a name) the same, when the matched node is not ""
UnresolvableQueryNamed ==
    (req.op \in QueryOps /\ lk.called)
        => /\ lk.out.kind # "node" => resp.status = 404
           /\ (lk.out.kind = "node" /\ lk.out.node # <<>>
               /\ TargetsIn(graph, lk.out.node, LabelsOf(req.op)) = {})
                 => /\ resp.status = 200
                    /\ resp.matched_node = lk.out.node
                    /\ resp.items = <<>>

\* C7: a query whose text resolves to node n answers with n and exactly the
\* targets of n's edges labelled within the category's synonyms, and leaves
\* the graph unchanged.
QueryFilter ==
    [][(req'.op \in QueryOps /\ lk'.called /\ lk'.out.kind = "node")
          => /\ graph' = graph
             /\ resp'.status = 200
             /\ resp'.matched_node = lk'.out.node
             /\ Range(resp'.items) = TargetsIn(graph, lk'.out.node, LabelsOf(req'.op))]_vars

\* (C7, for the nodes that have a name) the same, when the matched node is not ""
QueryFilterNamed ==
    [][(req'.op \in QueryOps /\ lk'.called /\ lk'.out.kind = "node" /\ lk'.out.node # <<>>)
          => /\ graph' = graph
             /\ resp'.status = 200
             /\ resp'.matched_node = lk'.out.node
             /\ Range(resp'.items) = TargetsIn(graph, lk'.out.node, LabelsOf(req'.op))]_vars

\* C8: a query whose trimmed, lowercased text is the name of a node resolves
\* to that node, whatever the speller and the scorer do.
ExactMatchFirst ==
    (lk.called /\ lower(strip(lk.query)) # <<>> /\ lower(strip(lk.query)) \in NodeSet(graph))
        => lk.out = Found(lower(strip(lk.query)))

\* the highest score the scorer of the last lookup gave a node
BestScore == Max({lk.scores[n] : n \in NodeSet(graph)})

ExportConsistent ==
    resp.kind = "graph"
        => \A k \in DOMAIN resp.edges :
              /\ resp.edges[k].source \in {resp.nodes[i].id : i \in DOMAIN resp.nodes}
              /\ resp.edges[k].target \in {resp.nodes[i].id : i \in DOMAIN resp.nodes}

====
